---- MODULE Spec2Model ----
(***************************************************************************)
(* State-machine model of src/api.py: the /infer request handler, the      *)
(* command runner run_inference_cli, and the scratch directories under     *)
(* WORK_DIR.                                                               *)
(*                                                                         *)
(* Text is modelled at the granularity the code inspects it:               *)
(*  - a command template is a sequence of symbols, where "{" and "}" are   *)
(*    the brace characters and every other symbol is a brace-free chunk of *)
(*    text ("input" and "output" are the placeholder names);               *)
(*  - an uploaded filename is a sequence of one-character strings;         *)
(*  - file contents and captured stdout/stderr are strings.                *)
(***************************************************************************)
EXTENDS Integers, Sequences, FiniteSets, TLC

\* Number of /infer requests the server receives under Spec (they may all be
\* in flight at the same time).
MaxRequests == 1

\* Number of /infer requests in flight at once under SpecConc.
MaxInFlight == 2

Requests == 1..MaxRequests
Tasks    == 1..MaxInFlight

\* Values uuid.uuid4().hex can return while n requests are served.
Ids(n) == {"u" \o ToString(i) : i \in 1..n}

WORK_DIR == "/tmp/csm_api"

(***************************************************************************)
(* Configuration: the command template.                                    *)
(***************************************************************************)
NoteText == "Set INFERENCE_CMD to your CSM transcribe command"

\* The default of os.getenv("INFERENCE_CMD", ...):
\*   echo '{"ok": true, "note": "Set INFERENCE_CMD ..."}' > {output}
DefaultCmd ==
  << "echo '", "{", "\"ok\"", ": true, \"note\": \"" \o NoteText \o "\"", "}",
     "' > ", "{", "output", "}" >>

\* Values of INFERENCE_CMD an operator may set in the environment.
EnvCmds ==
  { << "csm --in ", "{", "input", "}", " --out ", "{", "output", "}" >>,
    << "csm --in ", "{", "input", "}" >>,
    << "echo '", "{", "\"ok\"", ": true", "}", "' > ", "{", "output", "}",
       " # ", "{", "input", "}" >>,
    << "csm ", "{", "input", "}", " ", "{", "output", "}",
       " --fmt '%", "{", "{", "t", "}", "}", "'" >> }

Templates == {DefaultCmd} \cup EnvCmds

VARIABLES
  INFERENCE_CMD,  \* the configured command template (fixed at start-up)
  fs,             \* WORK_DIR: scratch directory of each id
  issued,         \* ids uuid4 has returned so far
  pc,             \* position of each request's handler
  upload,         \* the UploadFile of each request
  req_id,         \* req_id of each request ("" before it is generated)
  cmd,            \* the command line the runner built for the request
  completed,      \* what subprocess.run observed for the request's child
  spawned,        \* child processes the request's runner call has spawned
  warned,         \* whether the handler logged "Unexpected content-type"
  runner,         \* outcome of run_inference_cli: exception or result
  resp            \* the HTTP response of the request

vars == << INFERENCE_CMD, fs, issued, pc, upload, req_id, cmd, completed,
           spawned, warned, runner, resp >>

(***************************************************************************)
(* Text helpers.                                                           *)
(***************************************************************************)
RECURSIVE Join(_)
\* The string spelled by a sequence of strings.
Join(cs) == IF cs = << >> THEN "" ELSE Head(cs) \o Join(Tail(cs))

\* s.rfind(c) on a sequence of characters: the last index holding c, or 0.
RFind(s, c) ==
  IF \E i \in 1..Len(s) : s[i] = c
  THEN CHOOSE i \in 1..Len(s) : s[i] = c /\ \A j \in (i+1)..Len(s) : s[j] # c
  ELSE 0

RECURSIVE StripSlashes(_)
\* pathlib drops trailing separators when it parses a path.
StripSlashes(s) ==
  IF s # << >> /\ s[Len(s)] = "/" THEN StripSlashes(SubSeq(s, 1, Len(s) - 1))
  ELSE s

\* PurePath.name: the final path component.
PathName(s) ==
  LET t == StripSlashes(s)
      k == RFind(t, "/")
  IN  SubSeq(t, k + 1, Len(t))

\* PurePath.suffix: from the last dot of the final component, unless that dot
\* is its first or its last character.
PathSuffix(s) ==
  LET name == PathName(s)
      i    == RFind(name, ".")
  IN  IF 1 < i /\ i < Len(name) THEN Join(SubSeq(name, i, Len(name))) ELSE ""

\* "{input}" in INFERENCE_CMD, "{output}" in INFERENCE_CMD: substring tests.
Contains(T, name) ==
  \E i \in 1..(Len(T) - 2) : T[i] = "{" /\ T[i+1] = name /\ T[i+2] = "}"

\* A variant of the placeholder test that joins the two tests with "and".
MissingBothPlaceholders(T) ==
  ~Contains(T, "input") /\ ~Contains(T, "output")

\* The test that opens run_inference_cli:
\*   "{input}" not in INFERENCE_CMD or "{output}" not in INFERENCE_CMD
MissingPlaceholder(T) ==
  ~Contains(T, "input") \/ ~Contains(T, "output")

PlaceholderMsg == "INFERENCE_CMD must contain {input} and {output} placeholders"

(***************************************************************************)
(* Exceptions and str.format.                                              *)
(***************************************************************************)
NoExc == [type |-> "", msg |-> ""]
Exc(t, m) == [type |-> t, msg |-> m]

Raised(t, m) == [exc |-> Exc(t, m), cmd |-> << >>]

\* Index of the first "}" after position i, or 0.
NextClose(T, i) ==
  IF \E k \in (i+1)..Len(T) : T[k] = "}"
  THEN CHOOSE k \in (i+1)..Len(T) :
         T[k] = "}" /\ \A j \in (i+1)..(k-1) : T[j] # "}"
  ELSE 0

RECURSIVE FormatFrom(_, _, _, _, _)
\* str.format(input=..., output=...) scanning T from position i; acc is the
\* output so far.  "{{" and "}}" are escapes, "{name}" is a replacement
\* field looked up among the keyword arguments, "{}" is positional field 0,
\* and an unmatched brace is an error.
FormatFrom(T, i, input_path, output_path, acc) ==
  IF i > Len(T) THEN [exc |-> NoExc, cmd |-> acc]
  ELSE IF T[i] = "{" THEN
    IF i = Len(T)
    THEN Raised("ValueError", "Single '{' encountered in format string")
    ELSE IF T[i+1] = "{"
    THEN FormatFrom(T, i + 2, input_path, output_path, Append(acc, "{"))
    ELSE
      LET j == NextClose(T, i) IN
      IF j = 0
      THEN Raised("ValueError", "expected '}' before end of string")
      ELSE IF \E k \in (i+1)..(j-1) : T[k] = "{"
      THEN Raised("ValueError", "unexpected '{' in field name")
      ELSE
        LET field == SubSeq(T, i + 1, j - 1) IN
        IF field = << >>
        THEN Raised("IndexError",
               "Replacement index 0 out of range for positional args tuple")
        ELSE IF field = << "input" >>
        THEN FormatFrom(T, j + 1, input_path, output_path,
                        Append(acc, input_path))
        ELSE IF field = << "output" >>
        THEN FormatFrom(T, j + 1, input_path, output_path,
                        Append(acc, output_path))
        ELSE Raised("KeyError", "'" \o field[1] \o "'")
  ELSE IF T[i] = "}" THEN
    IF i < Len(T) /\ T[i+1] = "}"
    THEN FormatFrom(T, i + 2, input_path, output_path, Append(acc, "}"))
    ELSE Raised("ValueError", "Single '}' encountered in format string")
  ELSE FormatFrom(T, i + 1, input_path, output_path, Append(acc, T[i]))

RECURSIVE LiteralFrom(_, _, _, _, _)
\* Literal substitution: every occurrence of the text {input} becomes the
\* input path and every {output} the output path; nothing else is touched.
LiteralFrom(T, i, input_path, output_path, acc) ==
  IF i > Len(T) THEN acc
  ELSE IF i + 2 <= Len(T) /\ T[i] = "{" /\ T[i+2] = "}" /\ T[i+1] = "input"
  THEN LiteralFrom(T, i + 3, input_path, output_path, Append(acc, input_path))
  ELSE IF i + 2 <= Len(T) /\ T[i] = "{" /\ T[i+2] = "}" /\ T[i+1] = "output"
  THEN LiteralFrom(T, i + 3, input_path, output_path, Append(acc, output_path))
  ELSE LiteralFrom(T, i + 1, input_path, output_path, Append(acc, T[i]))

LiteralSubst(T, input_path, output_path) ==
  LiteralFrom(T, 1, input_path, output_path, << >>)

\* INFERENCE_CMD.format(input=input_path, output=output_path)
Format(T, input_path, output_path) ==
  FormatFrom(T, 1, input_path, output_path, << >>)

(***************************************************************************)
(* Uploads.                                                                *)
(***************************************************************************)
\* file.filename, as characters ("" and None are both << >>).
Filenames == { << >>, << "a" >>, << "a", ".", "m" >> }

\* file.content_type as << type, "/subtype" >> (None is << >>).
ContentTypes == { << >>, << "audio", "/wav" >>, << "text", "/plain" >> }

\* The uploaded bytes.
Bodies == { << >>, << 82 >> }

Uploads == [filename : Filenames, content_type : ContentTypes, body : Bodies]

NoUpload == [filename |-> << >>, content_type |-> << >>, body |-> << >>]

\* file.content_type and not file.content_type.startswith("audio")
UnexpectedContentType(up) ==
  up.content_type # << >> /\ up.content_type[1] # "audio"

(***************************************************************************)
(* JSON.                                                                   *)
(***************************************************************************)
OkText   == "{\"ok\": true}"
NumText  == "{\"n\": 1}"
StubText == "{\"ok\": true, \"note\": \"" \o NoteText \o "\"}"
Garbage  == "not json"
RawText  == "hello\n"

NoValue == [none |-> ""]

\* json.loads / json.load on the texts of the model: the parsed value, or
\* failure for a text that is not JSON.
JsonLoads(text) ==
  CASE text = OkText   -> [ok |-> TRUE, value |-> [ok |-> "true"]]
    [] text = NumText  -> [ok |-> TRUE, value |-> [n |-> "1"]]
    [] text = StubText -> [ok |-> TRUE,
                           value |-> [ok |-> "true", note |-> NoteText]]
    [] OTHER           -> [ok |-> FALSE, value |-> NoValue]

(***************************************************************************)
(* The scratch directories under WORK_DIR.                                 *)
(***************************************************************************)
NoFile == "<absent>"
IsDir  == "<directory>"

NoInput == [name |-> "", data |-> << >>]

\* A scratch directory: whether it exists, its input file, what is at
\* out.json (NoFile, IsDir, or the text of a regular file), and whether it
\* holds an entry that cannot be removed.
NoDir == [exists |-> FALSE, input |-> NoInput, out |-> NoFile, locked |-> FALSE]

ReqDir(id)     == WORK_DIR \o "/" \o id
InputName(sfx) == "input" \o sfx
InputPath(id, sfx) == ReqDir(id) \o "/" \o InputName(sfx)
OutputPath(id) == ReqDir(id) \o "/out.json"

\* req_dir.mkdir(parents=True, exist_ok=True)
Mkdir(f, id) ==
  IF f[id].exists THEN f
  ELSE [f EXCEPT ![id] = [NoDir EXCEPT !.exists = TRUE]]

\* shutil.rmtree(req_dir) inside try/except: removes the tree; when an entry
\* cannot be removed the error is swallowed and the directory stays.
Rmtree(f, id) ==
  IF f[id].exists /\ ~f[id].locked THEN [f EXCEPT ![id] = NoDir] ELSE f

(***************************************************************************)
(* The child process.                                                      *)
(***************************************************************************)
NoOutcome ==
  [timeout |-> FALSE, rc |-> 0, stdout |-> "", stderr |-> "", out |-> NoFile,
   locks |-> FALSE]

\* What a run of the external command can do: exceed the timeout; exit
\* non-zero with text on stderr; exit zero having written (or not) a file at
\* the output path and text on stdout; exit zero having made the output path
\* a directory; exit zero leaving an entry in the scratch directory that its
\* owner cannot remove.
Outcomes ==
  { [NoOutcome EXCEPT !.timeout = TRUE],
    [NoOutcome EXCEPT !.rc = 1, !.stderr = "boom\n"],
    [NoOutcome EXCEPT !.out = IsDir],
    [NoOutcome EXCEPT !.out = OkText, !.locks = TRUE] }
  \cup
  { [NoOutcome EXCEPT !.out = o, !.stdout = s] :
       o \in {NoFile, OkText, Garbage}, s \in {NumText, RawText} }
  \cup
  { [NoOutcome EXCEPT !.out = OkText] }

\* The effect of the child on the scratch directory it was pointed at.
ChildWrites(f, id, o) ==
  IF ~f[id].exists THEN f
  ELSE [f EXCEPT ![id].out = IF o.out = NoFile THEN @ ELSE o.out,
                 ![id].locked = @ \/ o.locks]

(***************************************************************************)
(* run_inference_cli.                                                      *)
(***************************************************************************)
NoRun == [exc |-> NoExc, result |-> NoValue]
Fails(t, m)  == [exc |-> Exc(t, m), result |-> NoValue]
Returns(v)   == [exc |-> NoExc, result |-> v]

\* The runner up to the point where it calls subprocess.run: the placeholder
\* test, then the command line (or the exception that ends the call).
RunnerStart(T, input_path, output_path) ==
  IF MissingPlaceholder(T) THEN Raised("RuntimeError", PlaceholderMsg)
  ELSE Format(T, input_path, output_path)

FailedMsg(o) ==
  "Inference command failed (rc=" \o ToString(o.rc) \o "): " \o o.stderr

\* A variant of the fallback chain that consults stdout before the file.
RunnerFinishStdoutFirst(o, dir, output_path) ==
  IF o.timeout THEN Fails("RuntimeError", "Inference command timed out")
  ELSE IF o.rc # 0 THEN Fails("RuntimeError", FailedMsg(o))
  ELSE IF JsonLoads(o.stdout).ok THEN Returns(JsonLoads(o.stdout).value)
  ELSE IF dir.exists /\ dir.out # NoFile /\ dir.out # IsDir
          /\ JsonLoads(dir.out).ok
  THEN Returns(JsonLoads(dir.out).value)
  ELSE Returns([stdout |-> o.stdout])

\* The runner from the return of subprocess.run (or its TimeoutExpired) on:
\* o is what was captured, dir the scratch directory as it is on disk.
RunnerFinish(o, dir, output_path) ==
  IF o.timeout THEN Fails("RuntimeError", "Inference command timed out")
  ELSE IF o.rc # 0 THEN Fails("RuntimeError", FailedMsg(o))
  ELSE IF dir.exists /\ dir.out # NoFile          \* os.path.exists
  THEN IF dir.out = IsDir                          \* open() raises
       THEN Fails("IsADirectoryError",
                  "[Errno 21] Is a directory: '" \o output_path \o "'")
       ELSE IF JsonLoads(dir.out).ok
       THEN Returns(JsonLoads(dir.out).value)
       ELSE Returns([stdout |-> o.stdout])
  ELSE IF JsonLoads(o.stdout).ok
  THEN Returns(JsonLoads(o.stdout).value)
  ELSE Returns([stdout |-> o.stdout])

(***************************************************************************)
(* The /infer handler.                                                     *)
(***************************************************************************)
NoResp == [status |-> 0, body |-> NoValue]

\* What the client receives for a raised HTTPException.
HTTPException(status, detail) == [status |-> status, body |-> [detail |-> detail]]

\* What the server answers when an exception leaves the handler.
Unhandled == [status |-> 500, body |-> [text |-> "Internal Server Error"]]

\* A variant of the first validation that also turns away uploads whose
\* declared content type is not audio.
ValidateAudioOnly(up) ==
  IF up.filename = << >> THEN HTTPException(400, "No filename provided")
  ELSE IF UnexpectedContentType(up)
  THEN HTTPException(400, "Unexpected content-type")
  ELSE NoResp

\* The validation that opens the handler: NoResp when the upload passes.  An
\* unexpected content type is logged only.
Validate(up) ==
  IF up.filename = << >> THEN HTTPException(400, "No filename provided")
  ELSE NoResp

\* Path(file.filename).suffix or ".wav"
Suffix(up) ==
  IF PathSuffix(up.filename) = "" THEN ".wav" ELSE PathSuffix(up.filename)

\* A variant of the except clause that catches RuntimeError only.
HandleRunnerRuntimeOnly(run) ==
  IF run.exc = NoExc THEN [status |-> 200, body |-> run.result]
  ELSE IF run.exc.type = "RuntimeError"
  THEN HTTPException(500, "Inference error: " \o run.exc.msg)
  ELSE Unhandled

\* try: result = run_inference_cli(...) / except Exception as e: raise
\* HTTPException(500, f"Inference error: {e}") / return JSONResponse(result)
HandleRunner(run) ==
  IF run.exc = NoExc THEN [status |-> 200, body |-> run.result]
  ELSE HTTPException(500, "Inference error: " \o run.exc.msg)

\* A variant of uuid4 that may repeat an identifier.
Uuid4Repeating == DOMAIN fs

\* uuid.uuid4().hex: an identifier no earlier call returned.
Uuid4 == DOMAIN fs \ issued

\* A variant of the cleanup that removes the directory only when it is empty.
CleanupRmdir(f, id) ==
  IF f[id].exists /\ f[id].input = NoInput /\ f[id].out = NoFile
     /\ ~f[id].locked
  THEN [f EXCEPT ![id] = NoDir] ELSE f

\* finally: try: shutil.rmtree(req_dir) / except Exception: pass
Cleanup(f, id) == Rmtree(f, id)

\* The state once the module is loaded: the template is whatever the
\* environment held, WORK_DIR exists and no request has arrived.
Start(reqs, templates) ==
  /\ INFERENCE_CMD \in templates
  /\ fs = [id \in Ids(Cardinality(reqs)) |-> NoDir]
  /\ issued = {}
  /\ pc = [r \in reqs |-> "idle"]
  /\ upload = [r \in reqs |-> NoUpload]
  /\ req_id = [r \in reqs |-> ""]
  /\ cmd = [r \in reqs |-> << >>]
  /\ completed = [r \in reqs |-> NoOutcome]
  /\ spawned = [r \in reqs |-> 0]
  /\ warned = [r \in reqs |-> FALSE]
  /\ runner = [r \in reqs |-> NoRun]
  /\ resp = [r \in reqs |-> NoResp]

Init == Start(Requests, Templates)

\* The handler is entered with an upload that fails the filename test: it
\* raises before anything is created.
Reject(r, up) ==
  /\ pc[r] = "idle"
  /\ Validate(up) # NoResp
  /\ upload' = [upload EXCEPT ![r] = up]
  /\ resp' = [resp EXCEPT ![r] = Validate(up)]
  /\ pc' = [pc EXCEPT ![r] = "returned"]
  /\ UNCHANGED << INFERENCE_CMD, fs, issued, req_id, cmd, completed, spawned,
                  warned, runner >>

\* The handler is entered with a named upload: content-type warning, request
\* id, scratch directory, input file opened for writing (up to the await).
Accept(r, up) ==
  /\ pc[r] = "idle"
  /\ Validate(up) = NoResp
  /\ \E id \in Uuid4 :
       /\ req_id' = [req_id EXCEPT ![r] = id]
       /\ issued' = issued \cup {id}
       /\ fs' = [Mkdir(fs, id) EXCEPT
                   ![id].input = [name |-> InputName(Suffix(up)), data |-> << >>]]
  /\ upload' = [upload EXCEPT ![r] = up]
  /\ warned' = [warned EXCEPT ![r] = UnexpectedContentType(up)]
  /\ pc' = [pc EXCEPT ![r] = "save"]
  /\ UNCHANGED << INFERENCE_CMD, cmd, completed, spawned, runner, resp >>

\* f.write(await file.read()), then the size test.
Save(r) ==
  /\ pc[r] = "save"
  /\ LET id == req_id[r]
         written == IF fs[id].exists
                    THEN [fs EXCEPT ![id].input.data = upload[r].body]
                    ELSE fs
     IN  /\ fs' = written
         /\ IF ~written[id].exists                   \* stat() raises
            THEN /\ resp' = [resp EXCEPT ![r] = Unhandled]
                 /\ pc' = [pc EXCEPT ![r] = "cleanup"]
            ELSE IF Len(written[id].input.data) = 0
            THEN /\ resp' = [resp EXCEPT ![r] =
                               HTTPException(400, "Uploaded file is empty")]
                 /\ pc' = [pc EXCEPT ![r] = "cleanup"]
            ELSE /\ resp' = resp
                 /\ pc' = [pc EXCEPT ![r] = "run"]
  /\ UNCHANGED << INFERENCE_CMD, issued, upload, req_id, cmd, completed,
                  spawned, warned, runner >>

\* The runner raises before it spawns anything; the handler turns the
\* exception into its response.
SpawnFails(r) ==
  /\ pc[r] = "run"
  /\ LET st == RunnerStart(INFERENCE_CMD,
                           InputPath(req_id[r], Suffix(upload[r])),
                           OutputPath(req_id[r]))
     IN  /\ st.exc # NoExc
         /\ runner' = [runner EXCEPT ![r] = Fails(st.exc.type, st.exc.msg)]
         /\ resp' = [resp EXCEPT ![r] =
                       HandleRunner(Fails(st.exc.type, st.exc.msg))]
  /\ pc' = [pc EXCEPT ![r] = "cleanup"]
  /\ UNCHANGED << INFERENCE_CMD, fs, issued, upload, req_id, cmd, completed,
                  spawned, warned >>

\* The runner builds the command line and subprocess.run executes it through
\* the shell: the child does o.
SpawnChild(r, o) ==
  /\ pc[r] = "run"
  /\ LET st == RunnerStart(INFERENCE_CMD,
                           InputPath(req_id[r], Suffix(upload[r])),
                           OutputPath(req_id[r]))
     IN  /\ st.exc = NoExc
         /\ cmd' = [cmd EXCEPT ![r] = st.cmd]
  /\ spawned' = [spawned EXCEPT ![r] = @ + 1]
  /\ completed' = [completed EXCEPT ![r] = o]
  /\ fs' = ChildWrites(fs, req_id[r], o)
  /\ pc' = [pc EXCEPT ![r] = "collect"]
  /\ UNCHANGED << INFERENCE_CMD, issued, upload, req_id, warned, runner, resp >>

\* subprocess.run has returned (or timed out): the runner derives its result
\* and the handler its response.
Collect(r) ==
  /\ pc[r] = "collect"
  /\ LET run == RunnerFinish(completed[r], fs[req_id[r]], OutputPath(req_id[r]))
     IN  /\ runner' = [runner EXCEPT ![r] = run]
         /\ resp' = [resp EXCEPT ![r] = HandleRunner(run)]
  /\ pc' = [pc EXCEPT ![r] = "cleanup"]
  /\ UNCHANGED << INFERENCE_CMD, fs, issued, upload, req_id, cmd, completed,
                  spawned, warned >>

\* The finally clause, then the handler returns control to the server.
Finish(r) ==
  /\ pc[r] = "cleanup"
  /\ fs' = Cleanup(fs, req_id[r])
  /\ pc' = [pc EXCEPT ![r] = "returned"]
  /\ UNCHANGED << INFERENCE_CMD, issued, upload, req_id, cmd, completed,
                  spawned, warned, runner, resp >>

Next ==
  \E r \in Requests :
    \/ \E up \in Uploads : Reject(r, up)
    \/ \E up \in Uploads : Accept(r, up)
    \/ Save(r)
    \/ SpawnFails(r)
    \/ \E o \in Outcomes : SpawnChild(r, o)
    \/ Collect(r)
    \/ Finish(r)

Spec == Init /\ [][Next]_vars

(***************************************************************************)
(* Concurrent requests: the same handler steps, interleaved among          *)
(* MaxInFlight requests, over a smaller choice of templates, uploads and   *)
(* child behaviours.                                                       *)
(***************************************************************************)
ConcTemplates ==
  { << "csm --in ", "{", "input", "}", " --out ", "{", "output", "}" >>,
    << "csm --in ", "{", "input", "}" >> }

ConcUploads ==
  { [filename |-> << >>, content_type |-> << >>, body |-> << 82 >>],
    [filename |-> << "a", ".", "m" >>, content_type |-> << "audio", "/wav" >>,
     body |-> << 82 >>],
    [filename |-> << "a" >>, content_type |-> << "text", "/plain" >>,
     body |-> << >>] }

ConcOutcomes ==
  { [NoOutcome EXCEPT !.out = OkText],
    [NoOutcome EXCEPT !.out = Garbage, !.stdout = RawText],
    [NoOutcome EXCEPT !.stdout = NumText],
    [NoOutcome EXCEPT !.out = OkText, !.locks = TRUE] }

InitConc == Start(Tasks, ConcTemplates)

NextConc ==
  \E r \in Tasks :
    \/ \E up \in ConcUploads : Reject(r, up)
    \/ \E up \in ConcUploads : Accept(r, up)
    \/ Save(r)
    \/ SpawnFails(r)
    \/ \E o \in ConcOutcomes : SpawnChild(r, o)
    \/ Collect(r)
    \/ Finish(r)

SpecConc == InitConc /\ [][NextConc]_vars

(***************************************************************************)
(* Properties.                                                             *)
(***************************************************************************)
Returned(r) == pc[r] = "returned"
Named(r)    == upload[r].filename # << >>
NonEmpty(r) == upload[r].body # << >>

\* The handler's call of the runner is over (it returned or raised).
RunnerDone(r) == pc[r] \in {"cleanup", "returned"} /\ Named(r) /\ NonEmpty(r)

\* The request created a scratch directory.
HasDir(r) == req_id[r] # ""

HasBoth(T) == Contains(T, "input") /\ Contains(T, "output")

ConfigError == HTTPException(500, "Inference error: " \o PlaceholderMsg)

\* C1 as stated: once the handler has returned, the scratch directory the
\* request created does not exist, whatever the outcome.
C1_AlwaysRemoved ==
  \A r \in DOMAIN pc :
    (Returned(r) /\ HasDir(r)) => ~fs[req_id[r]].exists

\* C1 amended: once the handler has returned, the scratch directory the
\* request created does not exist, unless its removal failed because the
\* directory holds an entry that cannot be removed (the failure is swallowed
\* and the directory stays).
C1_RemovedUnlessRemovalFails ==
  \A r \in DOMAIN pc :
    (Returned(r) /\ HasDir(r) /\ ~fs[req_id[r]].locked)
      => ~fs[req_id[r]].exists

\* A request answered 500 has returned and its scratch directory is gone.
C1_Witness ==
  \E r \in DOMAIN pc :
    /\ Returned(r) /\ HasDir(r) /\ resp[r].status = 500
    /\ completed[r].rc = 1
    /\ ~fs[req_id[r]].exists

\* C2 as stated: when the template lacks {output}, every /infer call, for
\* every upload, is answered 500 with the missing-placeholders message.
C2_EveryCall500 ==
  ~Contains(INFERENCE_CMD, "output") =>
    \A r \in DOMAIN pc : Returned(r) => resp[r] = ConfigError

\* C2 amended: when the template lacks {output}, every /infer call whose
\* upload has a filename and a non-empty body is answered 500 with the
\* missing-placeholders message, and every other call is answered 400.
C2_ValidUploads500 ==
  ~Contains(INFERENCE_CMD, "output") =>
    \A r \in DOMAIN pc :
      Returned(r) =>
        IF Named(r) /\ NonEmpty(r) THEN resp[r] = ConfigError
        ELSE resp[r].status = 400

\* A valid upload was answered with the configuration error by a server
\* whose template has {input} but no {output}.
C2_Witness ==
  \E r \in DOMAIN pc :
    /\ Returned(r) /\ Named(r) /\ NonEmpty(r)
    /\ Contains(INFERENCE_CMD, "input") /\ ~Contains(INFERENCE_CMD, "output")
    /\ resp[r] = ConfigError

WritesOk(o) == ~o.timeout /\ o.rc = 0 /\ o.out = OkText

\* C3: for a named, non-empty upload and a template with both placeholders
\* whose command writes {"ok": true} to the output path and exits zero, the
\* answer is 200 with body {"ok": true}.
C3_OkTemplateGives200 ==
  \A r \in DOMAIN pc :
    ( /\ Returned(r) /\ Named(r) /\ NonEmpty(r)
      /\ HasBoth(INFERENCE_CMD)
      /\ (spawned[r] > 0 => WritesOk(completed[r])) )
    => resp[r] = [status |-> 200, body |-> [ok |-> "true"]]

\* C4: every failure of the runner is answered 500 with detail
\* "Inference error: " followed by the exception's message; the message of a
\* non-zero exit holds the exit code and the captured stderr, that of a
\* timeout says so, and a failed child never yields another status.
C4_RunnerFailure500 ==
  \A r \in DOMAIN pc :
    RunnerDone(r) =>
      /\ runner[r].exc # NoExc =>
           resp[r] = HTTPException(500, "Inference error: " \o runner[r].exc.msg)
      /\ (spawned[r] = 1 /\ completed[r].timeout) =>
           resp[r] = HTTPException(500,
                       "Inference error: Inference command timed out")
      /\ (spawned[r] = 1 /\ ~completed[r].timeout /\ completed[r].rc # 0) =>
           resp[r] = HTTPException(500,
                       "Inference error: Inference command failed (rc="
                         \o ToString(completed[r].rc) \o "): "
                         \o completed[r].stderr)
      /\ spawned[r] = 0 => resp[r].status = 500

\* A child that exited 1 with "boom" on stderr was answered 500 with both in
\* the detail.
C4_Witness ==
  \E r \in DOMAIN pc :
    /\ Returned(r) /\ spawned[r] = 1 /\ completed[r].rc = 1
    /\ resp[r] = HTTPException(500,
         "Inference error: Inference command failed (rc=1): boom\n")

\* The result the fallback order of C5 prescribes for a child that exited
\* zero having left `out` at the output path and `stdout` on stdout.
C5_Expected(out, stdout) ==
  IF out # NoFile
  THEN IF JsonLoads(out).ok THEN JsonLoads(out).value
       ELSE [stdout |-> stdout]
  ELSE IF JsonLoads(stdout).ok THEN JsonLoads(stdout).value
       ELSE [stdout |-> stdout]

C6_Rejects400 ==
  \A r \in DOMAIN pc :
    Returned(r) =>
      /\ (~Named(r) \/ ~NonEmpty(r)) => resp[r].status = 400
      /\ resp[r].status = 400 => (~Named(r) \/ ~NonEmpty(r))

\* A named upload with an empty body and a non-audio content type was
\* answered 400 for being empty.
C6_Witness ==
  \E r \in DOMAIN pc :
    /\ Returned(r) /\ Named(r) /\ ~NonEmpty(r) /\ warned[r]
    /\ resp[r] = HTTPException(400, "Uploaded file is empty")

\* C7: under the default template a named, non-empty upload spawns the
\* default command and is answered 200 with the stub JSON, the default
\* template holding both placeholders.
C7_DefaultCommandRuns ==
  \A r \in DOMAIN pc :
    (Returned(r) /\ Named(r) /\ NonEmpty(r) /\ INFERENCE_CMD = DefaultCmd)
    => /\ HasBoth(INFERENCE_CMD)
       /\ spawned[r] = 1
       /\ resp[r] = [status |-> 200, body |-> JsonLoads(StubText).value]

\* C8: for a template with both placeholders the runner executes the
\* template with {input} and {output} replaced literally by the two paths,
\* every other character unchanged, and building the command never fails.
C8_LiteralSubstitution ==
  \A r \in DOMAIN pc :
    (RunnerDone(r) /\ HasBoth(INFERENCE_CMD))
    => /\ spawned[r] = 1
       /\ cmd[r] = LiteralSubst(INFERENCE_CMD,
                                InputPath(req_id[r], Suffix(upload[r])),
                                OutputPath(req_id[r]))

\* C9: a runner call spawns exactly one child when the template holds both
\* placeholders and none when it fails with the configuration error; a
\* request spawns at most one child, and none when it is answered 400.
C9_OneChildPerCall ==
  \A r \in DOMAIN pc :
    /\ RunnerDone(r) =>
         spawned[r] = IF HasBoth(INFERENCE_CMD) THEN 1 ELSE 0
    /\ spawned[r] <= 1
    /\ (Returned(r) /\ resp[r].status = 400) => spawned[r] = 0

InFlight(r) == pc[r] \notin {"idle", "returned"}

\* No two requests in flight use the same scratch directory.
DistinctDirs ==
  \A r1, r2 \in DOMAIN pc :
    (r1 # r2 /\ InFlight(r1) /\ InFlight(r2)) => req_id[r1] # req_id[r2]

\* The input file the runner is pointed at holds the request's own upload.
OwnInput ==
  \A r \in DOMAIN pc :
    pc[r] \in {"run", "collect"} =>
      fs[req_id[r]].input =
        [name |-> InputName(Suffix(upload[r])), data |-> upload[r].body]

\* The runner's outcome is the one derived from what the request's own child
\* left at the output path and wrote to stdout.
OwnResult ==
  \A r \in DOMAIN pc :
    (pc[r] \in {"cleanup", "returned"} /\ spawned[r] = 1) =>
      runner[r] = RunnerFinish(completed[r],
                    [NoDir EXCEPT !.exists = TRUE, !.out = completed[r].out],
                    OutputPath(req_id[r]))

\* A step changes the scratch directory of a request in flight only if it is
\* a step of that request, and a request's cleanup changes no directory but
\* its own.
OwnDirStep ==
  \A r \in DOMAIN pc :
    /\ (InFlight(r) /\ fs'[req_id[r]] # fs[req_id[r]]) => pc'[r] # pc[r]
    /\ (pc[r] = "cleanup" /\ pc'[r] = "returned") =>
         \A id \in DOMAIN fs \ {req_id[r]} : fs'[id] = fs[id]

\* C10: under any interleaving of concurrent requests, requests in flight
\* have distinct scratch directories, only a request's own steps touch its
\* directory (its cleanup removes that directory and nothing else), and its
\* result comes from its own input and output files.
C10_Isolation ==
  [](DistinctDirs /\ OwnInput /\ OwnResult) /\ [][OwnDirStep]_vars

\* Two requests are in flight at once, each with its own existing scratch
\* directory, one with its result (parsed from its output file) and one
\* whose child left a different output.
C10_Witness ==
  \E r1, r2 \in DOMAIN pc :
    /\ r1 # r2
    /\ pc[r1] = "cleanup" /\ resp[r1] = [status |-> 200, body |-> [ok |-> "true"]]
    /\ pc[r2] = "collect" /\ completed[r2].out = Garbage
    /\ fs[req_id[r1]].exists /\ fs[req_id[r2]].exists

====
